---- MODULE Spec2Model ----
(***************************************************************************)
(* State-machine model of the image comparison application: the App shell  *)
(* (tracked images, grid layout, sync flag, asynchronous image ingestion)  *)
(* and the ComparisonViewer (per-image transform table, wheel / button     *)
(* zoom, reset, pan gesture).                                              *)
(*                                                                         *)
(* Numbers.  Pan offsets are integers (MouseEvent.movementX/Y).  Scales    *)
(* are exact rationals <<n, d>> (n/d in lowest terms, d > 0): 0.001, 0.1,  *)
(* 1.25 and 0.8 are 1/1000, 1/10, 5/4 and 4/5.  The rounding of IEEE       *)
(* doubles is not modelled.                                                *)
(*                                                                         *)
(* Rendering.  A state change of App (setImages, setIsSynced) or of the    *)
(* viewer (setIsPanning) re-renders and then runs the viewer's effects;    *)
(* each action below contains that render and the effects it triggers.     *)
(* ComparisonViewer is mounted exactly while images is non-empty           *)
(* (App.tsx 145-159); unmounting discards its refs and its state.          *)
(***************************************************************************)
EXTENDS Integers, Sequences, FiniteSets, TLC

\* ------------------------------------------------------------------ bounds
\* number of image files the user has at hand; each is dropped at most once
MaxIds == 2
\* number of transform edits (wheel, zoom button, pan move) in one run
MaxEdits == 2

\* ------------------------------------------------------- program constants
MinScale == <<1, 10>>
MaxScale == <<20, 1>>
ZOOM_SPEED == <<1, 1000>>
ZoomInFactor == <<5, 4>>
ZoomOutFactor == <<4, 5>>
MinGrid == 1
MaxGrid == 8

\* ------------------------------------------------------------------ inputs
\* files the user can drop or paste: image files 1..MaxIds, and TextFile, a
\* file whose MIME type does not start with image/
TextFile == 0
Files == 0..MaxIds
IsImageType(f) == f # TextFile
\* a FileList of a drop, a paste or the file input: never empty
FileLists == (SUBSET Files) \ {{}}
\* crypto.randomUUID() for the record made from file f: identifiers are opaque
\* and never repeat, and a file is ingested at most once, so the file's
\* number stands for the identifier
RandomUUID(f) == f
\* WheelEvent.deltaY values
WheelDeltas == {-10, -25000, 25000}
\* MouseEvent.movementX / movementY pairs
PanMoves == {<<5, -3>>}
\* MouseEvent.button values: 0 primary, 2 secondary
Buttons == {0, 2}
\* null (no explicit target / no active image)
Null == 0

VARIABLES
    images,         \* App: ImageState[] (id and name of each record, in order)
    layout,         \* App: {rows, cols}
    isSynced,       \* App: sync flag
    reading,        \* files whose FileReader has not called onload yet
    decoding,       \* files whose Image has not called onload yet
    dropped,        \* image files handed to processFiles so far
    transforms,     \* viewer: transformsRef.current
    isPanning,      \* viewer: isPanning state
    activeImageId,  \* viewer: activeImageIdRef.current
    listeners,      \* number of mousemove/mouseup listener pairs on window
    edits,          \* wheel, zoom button and pan move events so far
    stale           \* files that were pending when the user last removed images

vars == <<images, layout, isSynced, reading, decoding, dropped, transforms,
          isPanning, activeImageId, listeners, edits, stale>>

\* ------------------------------------------------------ rational arithmetic
Abs(n) == IF n < 0 THEN -n ELSE n

RECURSIVE GCD(_, _)
GCD(a, b) == IF b = 0 THEN a ELSE GCD(b, a % b)

Norm(n, d) ==
    LET g == GCD(Abs(n), d)
    IN  <<n \div g, d \div g>>

RAdd(a, b) == Norm(a[1] * b[2] + b[1] * a[2], a[2] * b[2])
RMul(a, b) == Norm(a[1] * b[1], a[2] * b[2])
RScale(k, a) == Norm(k * a[1], a[2])
RLeq(a, b) == a[1] * b[2] <= b[1] * a[2]
RMax(a, b) == IF RLeq(a, b) THEN b ELSE a
RMin(a, b) == IF RLeq(a, b) THEN a ELSE b

\* ------------------------------------------------------------- transforms
IdentityTransform == [x |-> 0, y |-> 0, scale |-> <<1, 1>>]
EmptyTable == [i \in {} |-> IdentityTransform]

Ids(imgs) == {imgs[k].id : k \in 1..Len(imgs)}
Names(imgs) == {imgs[k].name : k \in 1..Len(imgs)}

\* bug variant of Clamp: the upper limit is forgotten
Clamp_NoUpper(v) == RMax(MinScale, v)

\* Math.min(Math.max(0.1, v), 20)
Clamp(v) == RMin(RMax(MinScale, v), MaxScale)

\* bug variant of WheelUpdater: the wheel delta scales instead of adding
WheelUpdater_Multiplicative(prev, deltaY) ==
    [prev EXCEPT !.scale =
        Clamp(RMul(prev.scale, RAdd(<<1, 1>>, RScale(-deltaY, ZOOM_SPEED))))]

\* bug variant of WheelUpdater: the sign of the wheel delta is kept
WheelUpdater_Inverted(prev, deltaY) ==
    [prev EXCEPT !.scale = Clamp(RAdd(prev.scale, RScale(deltaY, ZOOM_SPEED)))]

\* handleWheel: delta = e.deltaY * -ZOOM_SPEED; scale = clamp(prev.scale + delta)
WheelUpdater(prev, deltaY) ==
    [prev EXCEPT !.scale = Clamp(RAdd(prev.scale, RScale(-deltaY, ZOOM_SPEED)))]

\* handleZoomBtn: factor = direction === 'in' ? 1.25 : 0.8
Factor(direction) == IF direction = "in" THEN ZoomInFactor ELSE ZoomOutFactor

ZoomBtnUpdater(prev, direction) ==
    [prev EXCEPT !.scale = Clamp(RMul(prev.scale, Factor(direction)))]

\* bug variants of FansOut: the sync flag is ignored; every call fans out; a
\* global call is not recognised
FansOut_GlobalOnly(synced, targetId) == targetId = Null
FansOut_Always(synced, targetId) == TRUE
FansOut_SyncedOnly(synced, targetId) == synced

\* the fan-out test of applyTransformUpdate and handleReset: isSynced || !targetId
FansOut(synced, targetId) == synced \/ targetId = Null

\* the updater closures handed to applyTransformUpdate: a wheel updater with
\* its deltaY, or a button updater with its direction
WheelUpdate(deltaY) == [kind |-> "wheel", arg |-> deltaY]
ZoomBtnUpdate(direction) == [kind |-> "button", arg |-> direction]

\* updater(prev)
Update(updater, prev) ==
    IF updater.kind = "wheel"
    THEN WheelUpdater(prev, updater.arg)
    ELSE ZoomBtnUpdater(prev, updater.arg)

\* bug variant of ReferenceId: a global call takes the last image
ReferenceId_Last(imgs, targetId) ==
    IF targetId # Null THEN targetId ELSE imgs[Len(imgs)].id

\* applyTransformUpdate: referenceId = targetId || images[0]?.id
ReferenceId(imgs, targetId) ==
    IF targetId # Null THEN targetId ELSE imgs[1].id

\* applyTransformUpdate: the table after the call.  In the fan-out branch the
\* reference is the target, or images[0] for a global call; every tracked
\* image gets a copy of the reference's updated transform.  Otherwise only
\* the target changes, and only if it has an entry.
ApplyTransformUpdate(tr, imgs, synced, targetId, updater) ==
    IF FansOut(synced, targetId)
    THEN IF targetId = Null /\ Len(imgs) = 0
         THEN tr
         ELSE LET referenceId == ReferenceId(imgs, targetId)
                  newState == Update(updater, tr[referenceId])
                  ids == Ids(imgs)
              IN  [i \in DOMAIN tr \cup ids |->
                      IF i \in ids THEN newState ELSE tr[i]]
    ELSE IF targetId \in DOMAIN tr
         THEN [tr EXCEPT ![targetId] = Update(updater, tr[targetId])]
         ELSE tr

\* bug variant of ResetTable: the scale is reset and the pan offset is kept
ResetTable_KeepPan(tr, imgs, synced, id) ==
    IF synced \/ id = Null
    THEN [i \in DOMAIN tr \cup Ids(imgs) |->
             IF i \in Ids(imgs) THEN [tr[i] EXCEPT !.scale = <<1, 1>>] ELSE tr[i]]
    ELSE [tr EXCEPT ![id] = [tr[id] EXCEPT !.scale = <<1, 1>>]]

\* handleReset: the table after the call
ResetTable(tr, imgs, synced, id) ==
    IF FansOut(synced, id)
    THEN LET ids == Ids(imgs)
         IN  [i \in DOMAIN tr \cup ids |->
                 IF i \in ids THEN IdentityTransform ELSE tr[i]]
    ELSE [i \in DOMAIN tr \cup {id} |->
             IF i = id THEN IdentityTransform ELSE tr[i]]

\* bug variant of Moved: the offset is kept within 8 pixels of the origin
Moved_Clamped(t, dx, dy) ==
    LET Limit(v) == IF v > 8 THEN 8 ELSE IF v < -8 THEN -8 ELSE v
    IN  [t EXCEPT !.x = Limit(t.x + dx), !.y = Limit(t.y + dy)]

\* handleMouseMove: one transform moved by the event's movement
Moved(t, dx, dy) == [t EXCEPT !.x = t.x + dx, !.y = t.y + dy]

\* handleMouseMove: the table after the call (isPanning and an active image
\* are the handler's guard, tested by the action)
PanTable(tr, imgs, synced, targetId, dx, dy) ==
    IF synced
    THEN LET ids == Ids(imgs)
         IN  [i \in DOMAIN tr |-> IF i \in ids THEN Moved(tr[i], dx, dy) ELSE tr[i]]
    ELSE IF targetId \in DOMAIN tr
         THEN [tr EXCEPT ![targetId] = Moved(tr[targetId], dx, dy)]
         ELSE tr

\* bug variant of InitNew: the test for an existing entry is missing
InitNew_Overwrite(tr, imgs) ==
    [i \in DOMAIN tr \cup Ids(imgs) |->
        IF i \in Ids(imgs) THEN IdentityTransform ELSE tr[i]]

\* first effect of the viewer, lines 46-50: entries for new images
InitNew(tr, imgs) ==
    [i \in DOMAIN tr \cup Ids(imgs) |->
        IF i \in DOMAIN tr THEN tr[i] ELSE IdentityTransform]

\* bug variants of CleanupRemoved: nothing is deleted; the loop stops after the
\* first deleted key
CleanupRemoved_Nothing(tr, imgs) == tr

CleanupRemoved_One(tr, imgs) ==
    LET staleKeys == {k \in DOMAIN tr : k \notin Ids(imgs)}
    IN  IF staleKeys = {}
        THEN tr
        ELSE LET first == CHOOSE k \in staleKeys : \A m \in staleKeys : k <= m
             IN  [i \in DOMAIN tr \ {first} |-> tr[i]]

\* first effect of the viewer, lines 52-57: entries of removed images
CleanupRemoved(tr, imgs) ==
    [i \in DOMAIN tr \cap Ids(imgs) |-> tr[i]]

\* the whole effect, run after every render in which images changed
Reconcile(tr, imgs) == CleanupRemoved(InitNew(tr, imgs), imgs)

\* Transform table after App re-renders with the tracked images imgs: the
\* viewer is mounted only when imgs is non-empty, and a viewer that unmounts
\* loses transformsRef.
TableAfterRender(tr, imgs) ==
    IF Len(imgs) = 0 THEN EmptyTable ELSE Reconcile(tr, imgs)

\* bug variant of ListenersAfterCleanup: the cleanup removes nothing (as when
\* the handlers handed to removeEventListener are not the ones registered)
ListenersAfterCleanup_Leaky(prev) == prev

\* second effect of the viewer (deps isPanning, isSynced, images): the cleanup
\* of the previous run removes the pair that run added, then a pair is added
\* when isPanning
ListenersAfterCleanup(prev) == IF prev > 0 THEN prev - 1 ELSE prev

ListenersAfterEffect(prev, panning) ==
    ListenersAfterCleanup(prev) + (IF panning THEN 1 ELSE 0)

TypeOK ==
    /\ images \in Seq([id : 1..MaxIds, name : Files])
    /\ layout \in [rows : Int, cols : Int]
    /\ isSynced \in BOOLEAN
    /\ reading \subseteq Files
    /\ decoding \subseteq Files
    /\ dropped \subseteq Files
    /\ DOMAIN transforms \subseteq Nat
    /\ isPanning \in BOOLEAN
    /\ activeImageId \in Nat
    /\ listeners \in Nat
    /\ edits \in Nat
    /\ stale \subseteq Files

\* App() and its first render: no image, so the drop zone is shown and no
\* ComparisonViewer exists
Init ==
    /\ images = <<>>
    /\ layout = [rows |-> 1, cols |-> 2]
    /\ isSynced = TRUE
    /\ reading = {}
    /\ decoding = {}
    /\ dropped = {}
    /\ transforms = EmptyTable
    /\ isPanning = FALSE
    /\ activeImageId = Null
    /\ listeners = 0
    /\ edits = 0
    /\ stale = {}

\* bug variant of RenderImages: the viewer is remounted at every change of
\* images (as with a key derived from the array), so the gesture is lost
RenderImages_Remount(imgs) ==
    /\ transforms' = TableAfterRender(transforms, imgs)
    /\ isPanning' = FALSE
    /\ activeImageId' = Null
    /\ listeners' = ListenersAfterCleanup(listeners)

\* The viewer after App re-renders with a changed images array: both effects
\* run while it stays mounted; with no image left it unmounts (the cleanup of
\* the second effect runs, its refs and state are gone, and the next viewer
\* starts from useRef({}), useState(false), useRef(null)).
RenderImages(imgs) ==
    IF Len(imgs) = 0
    THEN /\ transforms' = EmptyTable
         /\ isPanning' = FALSE
         /\ activeImageId' = Null
         /\ listeners' = ListenersAfterCleanup(listeners)
    ELSE /\ transforms' = TableAfterRender(transforms, imgs)
         /\ listeners' = ListenersAfterEffect(listeners, isPanning)
         /\ UNCHANGED <<isPanning, activeImageId>>

\* ---------------------------------------------------------------- App
\* processFiles: one FileReader per file of an image type; other files are
\* skipped.  (Drop zone, file input and paste all end here.)
processFiles(fileList) ==
    LET accepted == {f \in fileList : IsImageType(f)}
    IN  /\ accepted \cap dropped = {}
        /\ dropped' = dropped \cup accepted
        /\ reading' = reading \cup accepted
        /\ UNCHANGED <<images, layout, isSynced, decoding, transforms,
                       isPanning, activeImageId, listeners, edits, stale>>

\* reader.onload: the data URL is handed to a new Image
readerOnload(f) ==
    /\ f \in reading
    /\ reading' = reading \ {f}
    /\ decoding' = decoding \cup {f}
    /\ UNCHANGED <<images, layout, isSynced, dropped, transforms, isPanning,
                   activeImageId, listeners, edits, stale>>

\* bug variant of AppendImage: setImages([...images, record]) with the images
\* of the render in which processFiles was created (useCallback, no deps)
AppendImage_StaleClosure(imgs, id, f) == <<[id |-> id, name |-> f]>>

\* img.onload: setImages(prev => [...prev, {id: crypto.randomUUID(), ...}])
AppendImage(imgs, id, f) == Append(imgs, [id |-> id, name |-> f])

imgOnload(f) ==
    /\ f \in decoding
    /\ decoding' = decoding \ {f}
    /\ stale' = stale \ {f}
    /\ images' = AppendImage(images, RandomUUID(f), f)
    /\ RenderImages(images')
    /\ UNCHANGED <<layout, isSynced, reading, dropped, edits>>

\* bug variant of RemoveImage: the first record is dropped, whatever the id
RemoveImage_First(imgs, id) == Tail(imgs)

\* handleRemove: setImages(prev => prev.filter(img => img.id !== id))
RemoveImage(imgs, id) == SelectSeq(imgs, LAMBDA img : img.id # id)

handleRemove(id) ==
    /\ id \in Ids(images)
    /\ images' = RemoveImage(images, id)
    /\ RenderImages(images')
    /\ stale' = reading \cup decoding
    /\ UNCHANGED <<layout, isSynced, reading, decoding, dropped, edits>>

\* clearAll: the button is disabled without images; confirm() may be declined
clearAll(confirmed) ==
    /\ Len(images) > 0
    /\ IF confirmed
       THEN /\ images' = <<>>
            /\ layout' = [rows |-> 1, cols |-> 2]
            /\ RenderImages(images')
            /\ stale' = reading \cup decoding
       ELSE UNCHANGED <<images, layout, transforms, isPanning, activeImageId,
                        listeners, stale>>
    /\ UNCHANGED <<isSynced, reading, decoding, dropped, edits>>

\* bug variant of NewLayout: the upper limit is forgotten
NewLayout_NoUpper(prev, key, delta) ==
    LET newValue == prev[key] + delta
    IN  IF newValue < MinGrid
        THEN prev
        ELSE [prev EXCEPT ![key] = newValue]

\* updateLayout: the new geometry
NewLayout(prev, key, delta) ==
    LET newValue == prev[key] + delta
    IN  IF newValue < MinGrid \/ newValue > MaxGrid
        THEN prev
        ELSE [prev EXCEPT ![key] = newValue]

updateLayout(key, delta) ==
    /\ layout' = NewLayout(layout, key, delta)
    /\ UNCHANGED <<images, isSynced, reading, decoding, dropped, transforms,
                   isPanning, activeImageId, listeners, edits, stale>>

\* bug variant of toggleSync: switching sync on aligns every image with the
\* first one
toggleSync_Aligns ==
    /\ isSynced' = ~isSynced
    /\ listeners' = IF Len(images) > 0
                    THEN ListenersAfterEffect(listeners, isPanning)
                    ELSE listeners
    /\ transforms' = IF ~isSynced /\ Len(images) > 0
                     THEN [i \in DOMAIN transforms |-> transforms[images[1].id]]
                     ELSE transforms
    /\ UNCHANGED <<images, layout, reading, decoding, dropped,
                   isPanning, activeImageId, edits, stale>>

\* Sync toggle: setIsSynced(!isSynced); a mounted viewer re-runs its second
\* effect (isSynced is one of its dependencies)
toggleSync ==
    /\ isSynced' = ~isSynced
    /\ listeners' = IF Len(images) > 0
                    THEN ListenersAfterEffect(listeners, isPanning)
                    ELSE listeners
    /\ UNCHANGED <<images, layout, reading, decoding, dropped, transforms,
                   isPanning, activeImageId, edits, stale>>

\* ---------------------------------------------------------------- viewer
\* Handlers of a tile belong to a rendered tile, so their id is a tracked
\* image; the global toolbar (rendered when images.length > 0) passes null.
Targets == Ids(images)
TargetsOrGlobal == Ids(images) \cup {Null}

\* handleWheel(e, id)
handleWheel(id, deltaY) ==
    /\ id \in Targets
    /\ edits < MaxEdits
    /\ edits' = edits + 1
    /\ transforms' = ApplyTransformUpdate(transforms, images, isSynced, id,
                                          WheelUpdate(deltaY))
    /\ UNCHANGED <<images, layout, isSynced, reading, decoding, dropped,
                   isPanning, activeImageId, listeners, stale>>

\* handleZoomBtn(e, id, direction)
handleZoomBtn(id, direction) ==
    /\ Len(images) > 0
    /\ id \in TargetsOrGlobal
    /\ edits < MaxEdits
    /\ edits' = edits + 1
    /\ transforms' = ApplyTransformUpdate(transforms, images, isSynced, id,
                                          ZoomBtnUpdate(direction))
    /\ UNCHANGED <<images, layout, isSynced, reading, decoding, dropped,
                   isPanning, activeImageId, listeners, stale>>

\* handleReset(e, id = null)
handleReset(id) ==
    /\ Len(images) > 0
    /\ id \in TargetsOrGlobal
    /\ transforms' = ResetTable(transforms, images, isSynced, id)
    /\ UNCHANGED <<images, layout, isSynced, reading, decoding, dropped,
                   isPanning, activeImageId, listeners, edits, stale>>

\* bug variant of handleMouseDown: the button test is missing
handleMouseDown_AnyButton(id, button) ==
    /\ id \in Targets
    /\ isPanning' = TRUE
    /\ activeImageId' = id
    /\ listeners' = IF isPanning
                    THEN listeners
                    ELSE ListenersAfterEffect(listeners, TRUE)
    /\ UNCHANGED <<images, layout, isSynced, reading, decoding, dropped,
                   transforms, edits, stale>>

\* handleMouseDown(e, id): only the primary button starts a gesture; the
\* second effect runs when isPanning changed
handleMouseDown(id, button) ==
    /\ id \in Targets
    /\ IF button # 0
       THEN UNCHANGED <<isPanning, activeImageId, listeners>>
       ELSE /\ isPanning' = TRUE
            /\ activeImageId' = id
            /\ listeners' = IF isPanning
                            THEN listeners
                            ELSE ListenersAfterEffect(listeners, TRUE)
    /\ UNCHANGED <<images, layout, isSynced, reading, decoding, dropped,
                   transforms, edits, stale>>

\* handleMouseMove(e), a window listener
handleMouseMove(dx, dy) ==
    /\ listeners > 0
    /\ edits < MaxEdits
    /\ edits' = edits + 1
    /\ transforms' = IF ~isPanning \/ activeImageId = Null
                     THEN transforms
                     ELSE PanTable(transforms, images, isSynced,
                                   activeImageId, dx, dy)
    /\ UNCHANGED <<images, layout, isSynced, reading, decoding, dropped,
                   isPanning, activeImageId, listeners, stale>>

\* handleMouseUp(), a window listener
handleMouseUp ==
    /\ listeners > 0
    /\ isPanning' = FALSE
    /\ activeImageId' = Null
    /\ listeners' = IF isPanning
                    THEN ListenersAfterEffect(listeners, FALSE)
                    ELSE listeners
    /\ UNCHANGED <<images, layout, isSynced, reading, decoding, dropped,
                   transforms, edits, stale>>

\* ---------------------------------------------------------------- system
\* The viewer never reads layout except to style the grid, and layout never
\* depends on the viewer: the geometry is explored by SpecLayout (the App
\* shell alone), everything else by Spec.
Shell ==
    \/ \E fileList \in FileLists : processFiles(fileList)
    \/ \E f \in Files : readerOnload(f)
    \/ \E f \in Files : imgOnload(f)
    \/ \E id \in 1..MaxIds : handleRemove(id)
    \/ \E confirmed \in BOOLEAN : clearAll(confirmed)

NextLayout ==
    \/ Shell
    \/ \E key \in {"rows", "cols"}, delta \in {-1, 1} : updateLayout(key, delta)

SpecLayout == Init /\ [][NextLayout]_vars

Next ==
    \/ \E fileList \in FileLists : processFiles(fileList)
    \/ \E f \in Files : readerOnload(f)
    \/ \E f \in Files : imgOnload(f)
    \/ \E id \in 1..MaxIds : handleRemove(id)
    \/ \E confirmed \in BOOLEAN : clearAll(confirmed)
    \/ toggleSync
    \/ \E id \in 1..MaxIds, deltaY \in WheelDeltas : handleWheel(id, deltaY)
    \/ \E id \in 0..MaxIds, direction \in {"in", "out"} : handleZoomBtn(id, direction)
    \/ \E id \in 0..MaxIds : handleReset(id)
    \/ \E id \in 1..MaxIds, button \in Buttons : handleMouseDown(id, button)
    \/ \E move \in PanMoves : handleMouseMove(move[1], move[2])
    \/ handleMouseUp

Spec == Init /\ [][Next]_vars

\* ======================================================================
\* Properties
\* ======================================================================
AllEqual(tr, imgs) == \A i, j \in Ids(imgs) : tr[i] = tr[j]

\* a step of a viewer handler that leaves the App state and the gesture alone
ViewerEditStep ==
    /\ images' = images
    /\ isSynced' = isSynced
    /\ isPanning' = isPanning
    /\ activeImageId' = activeImageId
    /\ dropped' = dropped
    /\ reading' = reading
    /\ decoding' = decoding

\* a wheel zoom, a button zoom or a reset, whatever its target
ZoomOrReset ==
    /\ ViewerEditStep
    /\ \/ \E id \in 1..MaxIds, deltaY \in WheelDeltas : handleWheel(id, deltaY)
       \/ \E id \in 0..MaxIds, direction \in {"in", "out"} : handleZoomBtn(id, direction)
       \/ \E id \in 0..MaxIds : handleReset(id)

\* a pan move that passes the handler's guard
PanMove(dx, dy) ==
    /\ isPanning
    /\ activeImageId # Null
    /\ edits' = edits + 1
    /\ handleMouseMove(dx, dy)

TargetedMutation(A) ==
    /\ ViewerEditStep
    /\ \/ \E deltaY \in WheelDeltas : handleWheel(A, deltaY)
       \/ \E direction \in {"in", "out"} : handleZoomBtn(A, direction)
       \/ handleReset(A)
       \/ (activeImageId = A /\ \E m \in PanMoves : PanMove(m[1], m[2]))

\* C2: in independent mode a mutation with explicit target A (wheel zoom, tile
\* zoom button, pan move dragging A, reset of A) changes the transform of no
\* other tracked image.
C2_IndependentTargetOnly ==
    [][(~isSynced /\ ViewerEditStep) =>
          \A A \in 1..MaxIds :
              \/ \A B \in Ids(images) \ {A} : transforms'[B] = transforms[B]
              \/ ~TargetedMutation(A)]_vars

\* C2 witness: independent mode, image 1 tracked since before image 2, image 2
\* zoomed and image 1 at another scale: the last mutation that made them
\* differ changed one of two tracked images and left the other.
C2_Witness ==
    /\ ~isSynced
    /\ Len(images) = 2 /\ images[1].id = 1 /\ images[2].id = 2
    /\ transforms[2].scale # <<1, 1>>
    /\ transforms[1].scale # transforms[2].scale

\* C3: the key set of the transform table is the set of tracked identifiers.
C3_KeySetIsTracked == DOMAIN transforms = Ids(images)

\* C3 witness: a gesture whose target was removed is still going on, in synced
\* mode, and the remaining image has been panned.
C3_Witness ==
    /\ isPanning
    /\ activeImageId # Null
    /\ activeImageId \notin Ids(images)
    /\ isSynced
    /\ \E i \in Ids(images) : transforms[i].x # 0

\* C4: every tracked image's scale lies in [0.1, 20].
C4_ScaleInRange ==
    \A i \in DOMAIN transforms :
        RLeq(MinScale, transforms[i].scale) /\ RLeq(transforms[i].scale, MaxScale)

\* C4 witness: one image clamped at the upper end and one at the lower end.
C4_Witness ==
    \E i, j \in Ids(images) :
        transforms[i].scale = MaxScale /\ transforms[j].scale = MinScale

GlobalZoom(direction) == ViewerEditStep /\ handleZoomBtn(Null, direction)

\* C6 as stated: in independent mode a global zoom changes the first tracked
\* image only.
C6_GlobalZoomReferenceOnly ==
    [][\A direction \in {"in", "out"} :
          (~isSynced /\ GlobalZoom(direction)) =>
              \A B \in Ids(images) \ {images[1].id} :
                  transforms'[B] = transforms[B]]_vars

\* C6 amended: in independent mode a global zoom gives every tracked image the
\* zoomed transform of the first tracked image (its x, its y, its scale times
\* the factor, clamped), as in synced mode.
C6_GlobalZoomFansOut ==
    [][\A direction \in {"in", "out"} :
          (~isSynced /\ GlobalZoom(direction)) =>
              \A i \in Ids(images) :
                  transforms'[i] =
                      ZoomBtnUpdater(transforms[images[1].id], direction)]_vars

\* C6 witness: independent mode, two images, one zoom-in press in all, and
\* both images at scale 1.25.
C6_Witness ==
    /\ ~isSynced
    /\ Len(images) = 2
    /\ edits = 1
    /\ \A i \in Ids(images) : transforms[i].scale = ZoomInFactor

\* C7: removing one tracked image removes its entry and no other, and leaves
\* the other entries' values.
C7_RemoveExactlyOne ==
    [][\A id \in 1..MaxIds :
          (id \in Ids(images) /\ Len(images') < Len(images) /\ handleRemove(id)) =>
              /\ DOMAIN transforms' = DOMAIN transforms \ {id}
              /\ \A B \in DOMAIN transforms' : transforms'[B] = transforms[B]]_vars

\* C7 witness: a gesture started on image 1 is still going on, so the viewer
\* has stayed mounted since; image 1 is gone and image 2 is tracked with a
\* transform that is not the identity: image 1 was removed next to image 2.
C7_Witness ==
    /\ isPanning
    /\ activeImageId = 1
    /\ Ids(images) = {2}
    /\ DOMAIN transforms = {2}
    /\ transforms[2] # IdentityTransform

\* the image records of every set of identifiers, in ascending order (the
\* reconciliation does not depend on the order)
ImageRecords == {[id |-> k, name |-> k] : k \in 1..MaxIds}
ImageLists ==
    {s \in UNION {[1..n -> ImageRecords] : n \in 0..MaxIds} :
        \A a, b \in DOMAIN s : a < b => s[a].id < s[b].id}

\* C8: reconciling a second time against the same tracked set leaves the
\* table as the first reconciliation left it, for every table the program
\* reaches and every tracked set.
C8_ReconcileIdempotent ==
    [](\A imgs \in ImageLists :
          LET once == Reconcile(transforms, imgs)
          IN  Reconcile(once, imgs) = once)

\* C8 witness: two images tracked, one of them away from the identity, and
\* the table is what reconciliation left.
C8_Witness ==
    /\ Len(images) = 2
    /\ \E i \in Ids(images) : transforms[i] # IdentityTransform
    /\ Reconcile(transforms, images) = transforms

\* C9: an ingestion that was pending when the user removed images completes
\* as a no-op.
C9_StaleCompletionIsNoOp ==
    [][\A f \in Files : (f \in stale /\ imgOnload(f)) => images' = images]_vars

InRange(v) == RLeq(MinScale, v) /\ RLeq(v, MaxScale)

\* C10 as stated: two wheel events d1 then d2 on one target end at the scale
\* of one wheel event d1 + d2.
C10_WheelComposes ==
    \A t \in {transforms[i] : i \in Ids(images)} : \A d1, d2 \in WheelDeltas :
        WheelUpdater(WheelUpdater(t, d1), d2).scale
            = WheelUpdater(t, d1 + d2).scale

\* C10 amended: two wheel events d1 then d2 on one target end at the scale of
\* one wheel event d1 + d2 provided the first event is not clamped, that is
\* scale - 0.001 * d1 lies in [0.1, 20].
C10_WheelComposesUnclamped ==
    [](\A t \in {transforms[i] : i \in Ids(images)} : \A d1 \in WheelDeltas :
          InRange(RAdd(t.scale, RScale(-d1, ZOOM_SPEED))) =>
              LET first == WheelUpdater(t, d1)
              IN  \A d2 \in WheelDeltas :
                      WheelUpdater(first, d2).scale = WheelUpdater(t, d1 + d2).scale)

\* C10 witness: two edits in all and an image at scale 1.02, which only two
\* wheel events of -10 produce.
C10_Witness ==
    /\ edits = 2
    /\ \E i \in Ids(images) : transforms[i].scale = <<51, 50>>

\* C11: rows and cols stay in [1, 8] in every reachable state, and a layout
\* change that would leave the range keeps the geometry as it was.
C11_GridInRange ==
    /\ [](/\ layout.rows \in MinGrid..MaxGrid
          /\ layout.cols \in MinGrid..MaxGrid)
    /\ [][\A key \in {"rows", "cols"}, delta \in {-1, 1} :
             (updateLayout(key, delta) /\ layout[key] + delta \notin MinGrid..MaxGrid)
                 => layout' = layout]_vars

\* C11 witness: the grid has been grown to the upper limit of rows and shrunk
\* to the lower limit of cols, with an image tracked.
C11_Witness ==
    /\ layout.rows = MaxGrid
    /\ layout.cols = MinGrid
    /\ Len(images) > 0

\* images and transform table after the decoding of f completes, then that of g
AfterBoth(f, g) ==
    LET one == AppendImage(images, RandomUUID(f), f)
        two == AppendImage(one, RandomUUID(g), g)
    IN  [images |-> two,
         transforms |-> TableAfterRender(TableAfterRender(transforms, one), two)]

\* C12: for two pending ingestions of different files, the tracked set (and
\* the transform table) after both complete is the same whichever completes
\* first; and a completion adds its record to the tracked images, drops
\* nothing and leaves the other pending ingestions pending.
C12_CompletionsCommute ==
    /\ [](\A f, g \in decoding :
            f # g =>
               /\ Ids(AfterBoth(f, g).images) = Ids(AfterBoth(g, f).images)
               /\ Names(AfterBoth(f, g).images) = Names(AfterBoth(g, f).images)
               /\ Ids(AfterBoth(f, g).images) = Ids(images) \cup {RandomUUID(f), RandomUUID(g)}
               /\ AfterBoth(f, g).transforms = AfterBoth(g, f).transforms)
    /\ [][decoding' # decoding =>
             \A f \in Files :
                 imgOnload(f) =>
                    /\ Ids(images') = Ids(images) \cup {RandomUUID(f)}
                    /\ Len(images') = Len(images) + 1
                    /\ decoding' = decoding \ {f}
                    /\ reading' = reading]_vars

\* C12 witness: files 1 and 2 are both tracked, nothing is pending, and the
\* record of file 2 comes before that of file 1: its completion arrived first.
C12_Witness ==
    /\ reading = {}
    /\ decoding = {}
    /\ Len(images) = 2
    /\ images[1].id = RandomUUID(2)
    /\ images[2].id = RandomUUID(1)

\* C13: the drag state machine.  From Idle a pointer-down with the primary
\* button on tile id goes to Panning with target id, and a pointer-down with
\* another button stays Idle; from Panning a pointer-move stays in Panning
\* with the same target; from Panning a pointer-up goes to Idle and clears
\* the target, and while Panning the pointer-up handler can always be
\* delivered (it listens on window).
C13_DragStateMachine ==
    /\ [](isPanning => ENABLED handleMouseUp)
    /\ [][/\ \A id \in 1..MaxIds, button \in Buttons :
               (~isPanning /\ handleMouseDown(id, button)) =>
                   IF button = 0
                   THEN isPanning' /\ activeImageId' = id
                   ELSE ~isPanning' /\ activeImageId' = activeImageId
          /\ \A m \in PanMoves :
               (isPanning /\ edits' = edits + 1 /\ handleMouseMove(m[1], m[2])) =>
                   isPanning' /\ activeImageId' = activeImageId
          /\ (isPanning /\ handleMouseUp) =>
               ~isPanning' /\ activeImageId' = Null]_vars

\* C13 witness: independent mode, Panning with target 2, and a pointer-move
\* has moved image 2 and not image 1.
C13_Witness ==
    /\ ~isSynced
    /\ isPanning
    /\ activeImageId = 2
    /\ Ids(images) = {1, 2}
    /\ transforms[2].x = 5
    /\ transforms[1].x = 0

\* C14: in synced mode a wheel event with raw delta d on tile T gives every
\* tracked image the transform {x: T.x, y: T.y, scale: clamp(T.scale -
\* 0.001 * d)} taken from T's transform before the event; with a negative
\* delta no scale ends below T's.
C14_SyncedWheel ==
    [][(isSynced /\ ViewerEditStep /\ edits' = edits + 1) =>
          \A T \in Ids(images), d \in WheelDeltas :
              handleWheel(T, d) =>
                  \A i \in Ids(images) :
                      /\ transforms'[i] =
                            [x |-> transforms[T].x,
                             y |-> transforms[T].y,
                             scale |-> RMin(RMax(MinScale,
                                                 RAdd(transforms[T].scale,
                                                      RScale(-d, ZOOM_SPEED))),
                                            MaxScale)]
                      /\ d < 0 => RLeq(transforms[T].scale, transforms'[i].scale)]_vars

\* C14 witness: synced, two images, one edit in all, and both images at
\* x 0, y 0, scale 1.01: one wheel event of -10 on one of two images at the
\* identity.
C14_Witness ==
    /\ isSynced
    /\ Len(images) = 2
    /\ edits = 1
    /\ \A i \in Ids(images) : transforms[i] = [x |-> 0, y |-> 0, scale |-> <<101, 100>>]

\* C15: in synced mode a global zoom-button press gives every tracked image
\* the transform {x: F.x, y: F.y, scale: clamp(F.scale * k)}, F the transform
\* of the first tracked image before the press, k = 1.25 for zoom-in and 0.8
\* for zoom-out.
C15_SyncedGlobalZoom ==
    [][(isSynced /\ ViewerEditStep /\ edits' = edits + 1) =>
          \A direction \in {"in", "out"} :
              handleZoomBtn(Null, direction) =>
                  LET F == transforms[images[1].id]
                      k == IF direction = "in" THEN <<5, 4>> ELSE <<4, 5>>
                  IN  \A i \in Ids(images) :
                          transforms'[i] =
                              [x |-> F.x,
                               y |-> F.y,
                               scale |-> RMin(RMax(MinScale, RMul(F.scale, k)),
                                              MaxScale)]]_vars

\* C15 witness: synced, two images, two edits in all (a pan move and a
\* zoom-in press), and both images at x 5, y -3, scale 1.25.
C15_Witness ==
    /\ isSynced
    /\ Len(images) = 2
    /\ edits = 2
    /\ \A i \in Ids(images) : transforms[i] = [x |-> 5, y |-> -3, scale |-> <<5, 4>>]

\* C16: a pointer-move (dx, dy) while Panning on a tracked target A takes A's
\* transform from {x, y, scale} to {x + dx, y + dy, scale}, and leaves the
\* scale of every tracked image as it was, in both sync modes.
C16_PanMoveExact ==
    [][(isPanning /\ activeImageId \in Ids(images) /\ ViewerEditStep
            /\ edits' = edits + 1) =>
          \A m \in PanMoves :
              handleMouseMove(m[1], m[2]) =>
                  /\ transforms'[activeImageId] =
                        [x |-> transforms[activeImageId].x + m[1],
                         y |-> transforms[activeImageId].y + m[2],
                         scale |-> transforms[activeImageId].scale]
                  /\ \A i \in Ids(images) :
                        transforms'[i].scale = transforms[i].scale]_vars

\* C16 witness: independent mode, Panning on image 1, one edit in all, image
\* 1 at {5, -3, 1} and image 2 at the identity.
C16_Witness ==
    /\ ~isSynced
    /\ isPanning
    /\ activeImageId = 1
    /\ Ids(images) = {1, 2}
    /\ edits = 1
    /\ transforms[1] = [x |-> 5, y |-> -3, scale |-> <<1, 1>>]
    /\ transforms[2] = IdentityTransform

\* C17: when the decoding of a file completes and its image becomes tracked,
\* the new image's transform is {x: 0, y: 0, scale: 1} and the transform of
\* every image tracked before is as it was, in either sync mode.
C17_NewImageIdentity ==
    [][decoding' # decoding =>
          \A f \in Files :
              imgOnload(f) =>
                  /\ transforms'[RandomUUID(f)] = [x |-> 0, y |-> 0, scale |-> <<1, 1>>]
                  /\ \A i \in Ids(images) : transforms'[i] = transforms[i]]_vars

\* C17 witness: synced mode, image 1 tracked before image 2, nothing pending,
\* image 1 zoomed and panned, image 2 at the identity.
C17_Witness ==
    /\ isSynced
    /\ Len(images) = 2 /\ images[1].id = 1 /\ images[2].id = 2
    /\ reading = {} /\ decoding = {}
    /\ transforms[1] = [x |-> 5, y |-> -3, scale |-> <<5, 4>>]
    /\ transforms[2] = IdentityTransform

\* C18: one pair of window listeners is registered while Panning and none
\* while Idle, whatever happened during the gesture (sync toggles, images
\* added or removed); so no pointer-move is handled while Idle.
C18_ListenersWhilePanning ==
    /\ [](listeners = IF isPanning THEN 1 ELSE 0)
    /\ [](~isPanning => \A m \in PanMoves : ~ENABLED handleMouseMove(m[1], m[2]))

\* C18 witness: a gesture is going on in independent mode, its target has
\* been removed from the tracked images since it started, and one pair of
\* listeners is registered.
C18_Witness ==
    /\ isPanning
    /\ ~isSynced
    /\ activeImageId # Null
    /\ activeImageId \notin Ids(images)
    /\ listeners = 1

\* C19: a sync toggle, in either direction, changes no transform, no tracked
\* image, and neither the drag state nor the drag target.
C19_ToggleKeepsTransforms ==
    [][(isSynced' # isSynced /\ toggleSync) =>
          /\ transforms' = transforms
          /\ images' = images
          /\ isPanning' = isPanning
          /\ activeImageId' = activeImageId]_vars

\* C19 witness: synced mode, image 1 tracked before image 2, one edit in
\* all, which moved image 2 and not image 1 (so it was made in independent
\* mode, and sync was switched on afterwards), and the two transforms still
\* differ.
C19_Witness ==
    /\ isSynced
    /\ Len(images) = 2 /\ images[1].id = 1 /\ images[2].id = 2
    /\ edits = 1
    /\ transforms[1] = IdentityTransform
    /\ transforms[2] = [x |-> 5, y |-> -3, scale |-> <<1, 1>>]

\* C20: the viewer leaves Panning only by a pointer-up or by being torn down
\* (no tracked image left): every other step from Panning ends in Panning;
\* and while Panning the pointer-move handler stays registered, so a later
\* pointer-move is handled.
C20_PanningUntilPointerUp ==
    /\ [][(isPanning /\ ~isPanning') => (handleMouseUp \/ Len(images') = 0)]_vars
    /\ []((isPanning /\ edits < MaxEdits) =>
             \A m \in PanMoves : ENABLED handleMouseMove(m[1], m[2]))

\* C20 witness: independent mode, Panning on image 1 with image 2 tracked
\* after it, two edits in all: image 2 has been zoomed by its button and
\* image 1 has been panned.
C20_Witness ==
    /\ ~isSynced
    /\ isPanning
    /\ activeImageId = 1
    /\ Len(images) = 2 /\ images[1].id = 1 /\ images[2].id = 2
    /\ edits = 2
    /\ transforms[1] = [x |-> 5, y |-> -3, scale |-> <<1, 1>>]
    /\ transforms[2] = [x |-> 0, y |-> 0, scale |-> <<5, 4>>]

====
